---- MODULE Spec2Model ----
(***************************************************************************)
(* A model of routing::Route (src/routing/route.cpp): the annotation       *)
(* tables of a route (turns, times, streets, altitudes, traffic), the      *)
(* route merger AppendRoute, the location matcher, the time estimator, the *)
(* street lookup and the segment exporter.                                 *)
(*                                                                         *)
(* Geometry is one-dimensional: a point is an integer number of metres     *)
(* along a line, a path is a non-decreasing sequence of points, and the    *)
(* distance between two points is the absolute difference.  Vertex indices *)
(* stored in the tables are 0-based as in the code; TLA+ sequences are     *)
(* 1-based, so vertex i of a path p is p[i + 1].                           *)
(***************************************************************************)
EXTENDS Integers, Sequences, FiniteSets, TLC

VARIABLES
  m_poly,            \* the path: sequence of points (FollowedPolyline::m_poly)
  m_current,         \* the projector cursor: [m_pt, m_ind]
  m_turns,           \* sequence of [m_index, m_turn]
  m_times,           \* sequence of [first, second]: (vertex index, cumulative s)
  m_streets,         \* sequence of [first, second]: (vertex index, street name)
  m_altitudes,       \* empty, or one altitude per vertex
  m_traffic,         \* empty, or one speed group per edge
  m_currentTime,     \* the tracking clock: time of the previous fix
  predictDistance,   \* what the last MoveIterator handed to the projector
  fix,               \* the GpsInfo of the last MoveIterator call
  routeMatchingInfo, \* what the last MatchLocationToRoute emitted
  name,              \* out-parameter of GetCurrentStreetName
  info,              \* out-parameter of GetSubrouteInfo
  crashed            \* a CHECK failed: the process is gone

vars == << m_poly, m_current, m_turns, m_times, m_streets, m_altitudes,
           m_traffic, m_currentTime, predictDistance, fix, routeMatchingInfo,
           name, info, crashed >>

(***************************************************************************)
(* Bounds of the model.                                                    *)
(***************************************************************************)
\* AppendRoute is not taken when the merged path would have more vertices.
MaxPolySize == 4
\* Largest cumulative time of a route handed to the model.
MaxRouteTime == 2

(***************************************************************************)
(* Program constants.                                                      *)
(***************************************************************************)
kLocationTimeThreshold == 60
\* GetCarRoutingSettings().m_matchingThresholdM, in the metres of the model.
MatchingThresholdM == 2

(***************************************************************************)
(* Sequences.                                                              *)
(***************************************************************************)
Back(s) == s[Len(s)]
PopBackSeq(s) == SubSeq(s, 1, Len(s) - 1)
Fill(n, v) == [i \in 1..n |-> v]
Abs(x) == IF x < 0 THEN -x ELSE x
Min(S) == CHOOSE x \in S : \A y \in S : x <= y

RECURSIVE SortedSeq(_)
SortedSeq(S) == IF S = {} THEN << >>
                ELSE LET m == Min(S) IN << m >> \o SortedSeq(S \ {m})

RECURSIVE SelectSeqIdx(_, _)
\* the items of a table whose vertex index is not 0, in order
SelectSeqIdx(s, key) ==
  IF s = << >> THEN << >>
  ELSE IF Head(s)[key] = 0 THEN SelectSeqIdx(Tail(s), key)
       ELSE << Head(s) >> \o SelectSeqIdx(Tail(s), key)

(***************************************************************************)
(* The path and its projector (FollowedPolyline), as the route uses them.  *)
(***************************************************************************)
Size(poly) == Len(poly)
GetPoint(poly, i) == poly[i + 1]
DistanceOnEarth(p, q) == Abs(p - q)
\* Route::IsValid: the path is not empty.
IsValid(poly) == Size(poly) > 0
\* FollowedPolyline::IsValid: there is an edge to follow.
PolyIsValid(poly) == Size(poly) > 1
\* FollowedPolyline::GetIterToIndex
GetIterToIndex(poly, i) == [m_pt |-> GetPoint(poly, i), m_ind |-> i]
\* the cursor of a path nobody has followed yet
BeginIter(poly) == IF Size(poly) = 0 THEN [m_pt |-> 0, m_ind |-> 0]
                   ELSE GetIterToIndex(poly, 0)
RECURSIVE ArcToVertex(_, _)
\* arc length from the start of the path to vertex i
ArcToVertex(poly, i) ==
  IF i = 0 THEN 0
  ELSE ArcToVertex(poly, i - 1)
         + DistanceOnEarth(GetPoint(poly, i - 1), GetPoint(poly, i))
\* arc length of a cursor from the start of the path
DistanceFromBegin(poly, it) ==
  ArcToVertex(poly, it.m_ind) + DistanceOnEarth(GetPoint(poly, it.m_ind), it.m_pt)
\* FollowedPolyline::GetDistanceM: arc length between two cursors
GetDistanceM(poly, it1, it2) ==
  DistanceFromBegin(poly, it2) - DistanceFromBegin(poly, it1)
\* every position on the path: a segment and a point of it
Projections(poly) ==
  UNION { { [m_pt |-> p, m_ind |-> i] :
             p \in GetPoint(poly, i)..GetPoint(poly, i + 1) } :
          i \in 0..(Size(poly) - 2) }

(***************************************************************************)
(* Routes handed to the model.  A route is a record of its path and its    *)
(* five tables, as the leg builder fills them after construction.          *)
(***************************************************************************)
MakeRoute(poly, turns, times, streets, altitudes, traffic) ==
  [poly |-> poly, turns |-> turns, times |-> times, streets |-> streets,
   altitudes |-> altitudes, traffic |-> traffic]

TurnItem(i, t) == [m_index |-> i, m_turn |-> t]
Item(i, v) == [first |-> i, second |-> v]

\* a path of n vertices, one metre apart, from the point start
UnitPoly(n, start) == [i \in 1..n |-> start + i - 1]

\* turn tables of a path of n vertices: turns at some of the vertices before
\* the last one, then the destination marker at the last one
TurnTables(n) ==
  { [k \in 1..Len(SortedSeq(S)) |-> TurnItem(SortedSeq(S)[k], "TurnLeft")]
      \o << TurnItem(n - 1, "ReachedYourDestination") >> :
    S \in SUBSET (0..(n - 2)) }

\* tables over the vertex set S carrying the values of T, both ascending
Zip(S, T) == [k \in 1..Cardinality(S) |-> Item(SortedSeq(S)[k], SortedSeq(T)[k])]

\* time tables of a path of n vertices: checkpoints strictly increasing in
\* vertex and in time, the last one past the origin
TimeTables(n, maxTime) ==
  UNION { { Zip(S, T) : T \in { Y \in SUBSET (0..maxTime) :
                                  Cardinality(Y) = Cardinality(S) } } :
          S \in { X \in SUBSET (0..(n - 1)) : X \cap (1..(n - 1)) # {} } }

StreetNames == {"a", "b"}
\* street tables whose entries lie at the vertices of S
StreetTablesOver(S) ==
  { [k \in 1..Cardinality(S) |-> Item(SortedSeq(S)[k], f[SortedSeq(S)[k]])] :
    f \in [S -> StreetNames] }
\* street tables of a path of n vertices; AppendRoute asserts that the last
\* entry lies before the last vertex
StreetTables(n) == UNION { StreetTablesOver(S) : S \in SUBSET (0..(n - 2)) }

SpeedGroups == {"Unknown", "G0"}
\* traffic arrays of a path of n vertices: none, or one group per edge
TrafficArrays(n) == { << >> } \cup [1..(n - 1) -> SpeedGroups]
\* altitude arrays of a path of n vertices: none, or one altitude per vertex
AltitudeArrays(n) == { << >>, [i \in 1..n |-> 100 + i] }

\* the tables of a route of n vertices that carries the least it must
PlainTurns(n) == << TurnItem(n - 1, "ReachedYourDestination") >>
PlainTimes(n) == << Item(n - 1, 1) >>

\* The routes of n vertices starting at the point start.  Each varies one
\* table; AppendRoute treats the tables independently of one another.
RoutesOfSize(n, start) ==
  LET poly == UnitPoly(n, start) IN
       { MakeRoute(poly, t, PlainTimes(n), << >>, << >>, << >>) : t \in TurnTables(n) }
  \cup { MakeRoute(poly, PlainTurns(n), t, << >>, << >>, << >>) :
         t \in TimeTables(n, MaxRouteTime) }
  \cup { MakeRoute(poly, PlainTurns(n), PlainTimes(n), s, << >>, << >>) :
         s \in StreetTables(n) }
  \cup { MakeRoute(poly, PlainTurns(n), PlainTimes(n), << >>, a, << >>) :
         a \in AltitudeArrays(n) }
  \cup { MakeRoute(poly, PlainTurns(n), PlainTimes(n), << >>, << >>, t) :
         t \in TrafficArrays(n) }

\* a route has at least one edge
RouteShapes == UNION { RoutesOfSize(n, 0) : n \in 2..(MaxPolySize - 1) }
\* the routes whose path starts at the point start
InputRoutes(start) ==
  { [r EXCEPT !.poly = [i \in 1..Len(r.poly) |-> r.poly[i] + start]] :
    r \in RouteShapes }

(***************************************************************************)
(* Route::GetTotalTimeSec                                                  *)
(***************************************************************************)
TotalTimeSec(times) == IF times = << >> THEN 0 ELSE Back(times).second
GetTotalTimeSec == TotalTimeSec(m_times)

(***************************************************************************)
(* Route::Update: the simplified path is rebuilt (car settings keep none)  *)
(* and the tracking clock is reset, unless the path has no edge.           *)
(***************************************************************************)
UpdateCurrentTime(poly, currentTime) ==
  IF ~PolyIsValid(poly) THEN currentTime ELSE 0

Update ==
  /\ ~crashed
  /\ m_currentTime' = UpdateCurrentTime(m_poly, m_currentTime)
  /\ UNCHANGED << m_poly, m_current, m_turns, m_times, m_streets, m_altitudes,
                  m_traffic, predictDistance, fix, routeMatchingInfo, name,
                  info, crashed >>

(***************************************************************************)
(* Route::AppendTraffic, called by AppendRoute after the last point of the *)
(* path has been removed.  The result is the new traffic array and whether *)
(* the CHECKs passed.                                                      *)
(***************************************************************************)
\* AppendTraffic back-filling one entry per vertex of the route before its
\* last point was removed
AppendTrafficCountsRemovedPoint(traffic, poly, route) ==
  IF traffic = << >> /\ route.traffic = << >>
    THEN [traffic |-> traffic, ok |-> IsValid(route.poly)]
  ELSE IF ~IsValid(poly)
    THEN [traffic |-> route.traffic, ok |-> IsValid(route.poly)]
  ELSE LET filled == IF traffic = << >> THEN Fill(Size(poly) + 1, "Unknown")
                     ELSE traffic
       IN IF Len(filled) # Size(poly) \/ ~IsValid(route.poly)
            THEN [traffic |-> filled, ok |-> FALSE]
          ELSE IF route.traffic = << >>
            THEN [traffic |-> filled \o Fill(Size(route.poly) - 1, "Unknown"),
                  ok |-> TRUE]
          ELSE [traffic |-> filled \o route.traffic, ok |-> TRUE]

AppendTraffic(traffic, poly, route) ==
  IF traffic = << >> /\ route.traffic = << >>
    THEN [traffic |-> traffic, ok |-> IsValid(route.poly)]
  ELSE IF ~IsValid(poly)
    THEN [traffic |-> route.traffic, ok |-> IsValid(route.poly)]
  ELSE LET filled == IF traffic = << >> THEN Fill(Size(poly), "Unknown")
                     ELSE traffic
       IN IF Len(filled) # Size(poly) \/ ~IsValid(route.poly)
            THEN [traffic |-> filled, ok |-> FALSE]
          ELSE IF route.traffic = << >>
            THEN [traffic |-> filled \o Fill(Size(route.poly) - 1, "Unknown"),
                  ok |-> TRUE]
          ELSE [traffic |-> filled \o route.traffic, ok |-> TRUE]

(***************************************************************************)
(* Route::AppendRoute.  Its ASSERTs (the last turn is the destination      *)
(* marker, the continuation starts within 2 m of the end of the route, the *)
(* last street entry lies before the last vertex) hold of the routes       *)
(* handed in; its CHECKs end the process.                                  *)
(***************************************************************************)
\* the entries of a table of the appended route, re-based; those at its
\* vertex 0 are skipped
\* RebaseTurns without "t.m_index += indexOffset"
RebaseTurnsNoOffset(turns, indexOffset) == SelectSeqIdx(turns, "m_index")

RebaseTurns(turns, indexOffset) ==
  LET kept == SelectSeqIdx(turns, "m_index")
  IN [k \in 1..Len(kept) |->
        TurnItem(kept[k].m_index + indexOffset, kept[k].m_turn)]

RebaseStreets(streets, indexOffset) ==
  LET kept == SelectSeqIdx(streets, "first")
  IN [k \in 1..Len(kept) |-> Item(kept[k].first + indexOffset, kept[k].second)]

\* RebaseTimes without "t.second += estimatedTime"
RebaseTimesNoShift(times, indexOffset, estimatedTime) ==
  LET kept == SelectSeqIdx(times, "first")
  IN [k \in 1..Len(kept) |-> Item(kept[k].first + indexOffset, kept[k].second)]

RebaseTimes(times, indexOffset, estimatedTime) ==
  LET kept == SelectSeqIdx(times, "first")
  IN [k \in 1..Len(kept) |->
        Item(kept[k].first + indexOffset, kept[k].second + estimatedTime)]

\* the altitude array after a merge: AppendRoute does not touch it
AppendAltitudes(altitudes, route) == altitudes

Crash ==
  /\ crashed' = TRUE
  /\ UNCHANGED << m_poly, m_current, m_turns, m_times, m_streets, m_altitudes,
                  m_traffic, m_currentTime, predictDistance, fix,
                  routeMatchingInfo, name, info >>

AppendRoute(route) ==
  /\ ~crashed
  /\ IF ~IsValid(route.poly) THEN UNCHANGED vars
     ELSE
       LET estimatedTime == TotalTimeSec(m_times)
           nonEmpty == Size(m_poly) # 0
       IN IF nonEmpty /\ (m_turns = << >> \/ m_times = << >>) THEN Crash
          ELSE
            LET poly1  == IF nonEmpty THEN PopBackSeq(m_poly) ELSE m_poly
                turns1 == IF nonEmpty THEN PopBackSeq(m_turns) ELSE m_turns
                times1 == IF nonEmpty THEN PopBackSeq(m_times) ELSE m_times
                indexOffset == Size(poly1)
                turns2   == turns1 \o RebaseTurns(route.turns, indexOffset)
                streets2 == m_streets \o RebaseStreets(route.streets, indexOffset)
                times2   == times1
                              \o RebaseTimes(route.times, indexOffset, estimatedTime)
                merged   == AppendTraffic(m_traffic, poly1, route)
                poly2    == poly1 \o route.poly
            IN IF ~merged.ok
                  \/ (merged.traffic # << >>
                        /\ Len(merged.traffic) + 1 # Size(poly2))
                 THEN Crash
               ELSE /\ m_poly' = poly2
                    /\ m_current' = BeginIter(poly2)
                    /\ m_turns' = turns2
                    /\ m_streets' = streets2
                    /\ m_times' = times2
                    /\ m_traffic' = merged.traffic
                    /\ m_altitudes' = AppendAltitudes(m_altitudes, route)
                    /\ m_currentTime' = UpdateCurrentTime(poly2, m_currentTime)
                    /\ UNCHANGED << predictDistance, fix, routeMatchingInfo,
                                    name, info, crashed >>

(***************************************************************************)
(* Route::MoveIterator                                                     *)
(***************************************************************************)
GpsInfo(pos, hasSpeed, speed, timestamp, accuracy) ==
  [m_pos |-> pos, hasSpeed |-> hasSpeed, m_speed |-> speed,
   m_timestamp |-> timestamp, m_horizontalAccuracy |-> accuracy,
   m_bearing |-> 0]

Max2(x, y) == IF x > y THEN x ELSE y

\* the prediction MoveIterator hands to the projector; -1 is "none"
PredictDistance(currentTime, gps) ==
  IF currentTime > 0 /\ gps.hasSpeed
    THEN LET deltaT == gps.m_timestamp - currentTime
         IN IF deltaT > 0 /\ deltaT < kLocationTimeThreshold
              THEN gps.m_speed * deltaT
            ELSE -1
  ELSE -1

\* MoveIterator recording the time of the fix
MoveIteratorRecordsTime(currentTime, gps) == gps.m_timestamp

\* the tracking clock after MoveIterator: it is left as it was
MoveIteratorCurrentTime(currentTime, gps) == currentTime

\* FollowedPolyline::UpdateProjectionByPrediction: the positions of the path
\* inside the window around the fix
UpdateProjectionByPrediction(poly, gps) ==
  { it \in Projections(poly) :
      DistanceOnEarth(it.m_pt, gps.m_pos)
        <= Max2(MatchingThresholdM, gps.m_horizontalAccuracy) }

MoveIterator(gps) ==
  /\ ~crashed
  /\ predictDistance' = PredictDistance(m_currentTime, gps)
  /\ fix' = gps
  /\ m_currentTime' = MoveIteratorCurrentTime(m_currentTime, gps)
  /\ LET found == UpdateProjectionByPrediction(m_poly, gps)
     IN IF found = {} THEN m_current' = m_current
        ELSE m_current' \in found
  /\ UNCHANGED << m_poly, m_turns, m_times, m_streets, m_altitudes, m_traffic,
                  routeMatchingInfo, name, info, crashed >>

(***************************************************************************)
(* Route::GetPolySegAngle and Route::MatchLocationToRoute                  *)
(***************************************************************************)
RECURSIVE NextDistinct(_, _, _)
\* the first vertex from i on whose point differs from p1; Size(poly) if none
NextDistinct(poly, p1, i) ==
  IF GetPoint(poly, i) = p1 /\ i + 1 < Size(poly)
    THEN NextDistinct(poly, p1, i + 1)
  ELSE IF GetPoint(poly, i) = p1 THEN i + 1 ELSE i

GetPolySegAngle(poly, ind) ==
  IF ind + 1 >= Size(poly) THEN 0
  ELSE LET p1 == GetPoint(poly, ind)
           i == NextDistinct(poly, p1, ind + 1)
       IN IF i = Size(poly) THEN 0
          ELSE IF GetPoint(poly, i) > p1 THEN 0 ELSE 180

\* location::AngleToBearing
AngleToBearing(a) == (450 - a) % 360

MatchLocationToRoute(location) ==
  /\ ~crashed
  /\ IF PolyIsValid(m_poly)
        /\ DistanceOnEarth(m_current.m_pt, location.m_pos) < MatchingThresholdM
       THEN /\ fix' = [location EXCEPT
                         !.m_pos = m_current.m_pt,
                         !.m_bearing =
                            AngleToBearing(GetPolySegAngle(m_poly, m_current.m_ind))]
            /\ routeMatchingInfo' =
                 [isSet |-> TRUE, pt |-> m_current.m_pt, ind |-> m_current.m_ind,
                  dist |-> DistanceFromBegin(m_poly, m_current)]
     ELSE /\ fix' = location
          /\ UNCHANGED routeMatchingInfo
  /\ UNCHANGED << m_poly, m_current, m_turns, m_times, m_streets, m_altitudes,
                  m_traffic, m_currentTime, predictDistance, name, info,
                  crashed >>

(***************************************************************************)
(* The route merger: a route is constructed from a valid path, the leg     *)
(* builder fills its tables, and continuations are appended to it.  The    *)
(* constructor's initialiser list leaves m_currentTime to Update.          *)
(***************************************************************************)
NoFix == GpsInfo(0, FALSE, 0, 0, 0)
NoMatch == [isSet |-> FALSE, pt |-> 0, ind |-> 0, dist |-> 0]
\* the street name nobody has asked for yet; once asked, the name comes with
\* the vertex index of the cursor it was asked at
NoName == [asked |-> FALSE, at |-> 0, value |-> ""]
\* the segment list nobody has asked for yet
NoInfo == [done |-> FALSE, records |-> << >>, outOfBounds |-> FALSE]

Construct(route) ==
  /\ m_poly = route.poly
  /\ m_current = BeginIter(route.poly)
  /\ m_turns = route.turns
  /\ m_times = route.times
  /\ m_streets = route.streets
  /\ m_altitudes = route.altitudes
  /\ m_traffic = route.traffic
  /\ \E uninitialised \in {0, 7} :
       m_currentTime = UpdateCurrentTime(route.poly, uninitialised)
  /\ predictDistance = -1
  /\ fix = NoFix
  /\ routeMatchingInfo = NoMatch
  /\ name = NoName
  /\ info = NoInfo
  /\ crashed = FALSE

Init == \E route \in InputRoutes(0) : Construct(route)

\* the continuation starts where the route ends
DoAppendRoute ==
  \E route \in InputRoutes(Back(m_poly)) :
    /\ Size(m_poly) - 1 + Size(route.poly) <= MaxPolySize
    /\ AppendRoute(route)

Next == DoAppendRoute \/ Update

Spec == Init /\ [][Next]_vars

(***************************************************************************)
(* Properties of the route merger.                                         *)
(***************************************************************************)
\* the continuations AppendRoute can be called with in the current state
Continuations ==
  { route \in InputRoutes(Back(m_poly)) :
      Size(m_poly) - 1 + Size(route.poly) <= MaxPolySize }

StrictlyIncreasing(s, key) ==
  \A i, j \in 1..Len(s) : i < j => s[i][key] < s[j][key]

\* the name of the street-table entry with the greatest index <= i
CoveringName(streets, i) ==
  LET covering == { k \in 1..Len(streets) : streets[k].first <= i }
  IN IF covering = {} THEN "(none)"
     ELSE streets[CHOOSE k \in covering :
                    \A l \in covering : streets[l].first <= streets[k].first].second

TrafficSized ==
  /\ ~crashed
  /\ m_traffic = << >> \/ Len(m_traffic) = Size(m_poly) - 1

TrafficBackfilled ==
  \A route \in Continuations :
    (AppendRoute(route) /\ m_traffic = << >> /\ route.traffic # << >>)
      => m_traffic' = Fill(Size(m_poly) - 1, "Unknown") \o route.traffic

\* C1: after AppendRoute(B) on a valid route A (2 vertices or more) with a
\* valid B, whichever of the two traffic arrays are empty, no CHECK fails and
\* the traffic array is empty or has (merged vertex count - 1) entries; when
\* A's traffic is empty and B's is not, it is one "Unknown" per edge of A
\* followed by B's values.
C1_TrafficMerge == [](TrafficSized) /\ [][TrafficBackfilled]_vars

\* C1 witness: a merged route, longer than any route handed in, whose traffic is a
\* back-filled "Unknown" followed by a real value of the continuation.
C1_Witness ==
  /\ Size(m_poly) >= MaxPolySize
  /\ Len(m_traffic) = Size(m_poly) - 1
  /\ m_traffic[1] = "Unknown"
  /\ m_traffic[Len(m_traffic)] = "G0"
  /\ m_altitudes = << >>

\* C2: in every state reached by AppendRoute calls from a valid route, the
\* altitude array is empty or has one entry per vertex of the path.
C2_AltitudesSized ==
  m_altitudes = << >> \/ Len(m_altitudes) = Size(m_poly)

\* C3: after any sequence of merges of valid routes the turn table has
\* strictly increasing indices inside [0, vertex count) and its last entry
\* is the destination marker at the last vertex.
C3_TurnsValid ==
  /\ ~crashed
  /\ m_turns # << >>
  /\ StrictlyIncreasing(m_turns, "m_index")
  /\ \A k \in 1..Len(m_turns) :
       m_turns[k].m_index >= 0 /\ m_turns[k].m_index < Size(m_poly)
  /\ Back(m_turns).m_turn = "ReachedYourDestination"
  /\ Back(m_turns).m_index = Size(m_poly) - 1

\* C3 witness: a route merged twice whose table holds turns of several legs.
C3_Witness ==
  /\ Size(m_poly) >= MaxPolySize
  /\ Len(m_turns) >= 3
  /\ m_turns[1].m_index = 0

TimesValid ==
  /\ ~crashed
  /\ m_times # << >>
  /\ StrictlyIncreasing(m_times, "first")
  /\ StrictlyIncreasing(m_times, "second")
  /\ Back(m_times).first < Size(m_poly)

TimesShifted ==
  \A route \in Continuations :
    AppendRoute(route) =>
      /\ \A k \in 1..Len(route.times) :
           route.times[k].first # 0 =>
             \E l \in 1..Len(m_times') :
               m_times'[l] = Item(route.times[k].first + Size(m_poly) - 1,
                                  route.times[k].second + TotalTimeSec(m_times))
      /\ TotalTimeSec(m_times')
           = TotalTimeSec(m_times) + TotalTimeSec(route.times)

\* C4: after AppendRoute(B) on A, both valid, every time entry taken from B
\* has its time increased by A's last cumulative time before the merge, the
\* merged time table is strictly increasing in index and in time with its
\* last index below the vertex count, and the total time of the merged
\* route is A's total time plus B's.
C4_TimesMerge == [](TimesValid) /\ [][TimesShifted]_vars

\* C4 witness: a merged route with checkpoints of both legs, the later ones
\* shifted past the first leg's total.
C4_Witness ==
  /\ Size(m_poly) >= MaxPolySize
  /\ Len(m_times) >= 3
  /\ m_times[1].first = 0
  /\ Back(m_times).second >= 3

\* C9: after AppendRoute(B) on A, both with street names, every vertex
\* k >= 1 of B that B's table covers is covered in the merged table, at
\* indexOffset + k, by an entry with the same street name.
C9_StreetsPreserved ==
  [][\A route \in Continuations :
       (AppendRoute(route) /\ m_streets # << >> /\ route.streets # << >>)
         => \A k \in 1..(Size(route.poly) - 1) :
              CoveringName(route.streets, k) # "(none)"
                => CoveringName(m_streets', Size(m_poly) - 1 + k)
                     = CoveringName(route.streets, k)]_vars

(***************************************************************************)
(* Tracking: fixes are matched against a route that is re-planned now and  *)
(* then.  The fixes differ in position, speed and timestamp.               *)
(***************************************************************************)
PlainRoute(n, start) ==
  MakeRoute(UnitPoly(n, start), PlainTurns(n), PlainTimes(n), << >>, << >>, << >>)

\* fixes along the path: without a speed, standing still, moving; the
\* second timestamp is past the staleness threshold
GpsFixes ==
  { GpsInfo(pos, sp[1], sp[2], ts, 0) :
      pos \in 0..MaxPolySize,
      sp \in { << FALSE, 0 >>, << TRUE, 0 >>, << TRUE, 5 >> },
      ts \in { 1, kLocationTimeThreshold + 30 } }

InitTracking ==
  \E n \in 2..(MaxPolySize - 1) : Construct(PlainRoute(n, 0))

DoAppendPlainRoute ==
  \E n \in 2..(MaxPolySize - 1) :
    /\ Size(m_poly) - 1 + n <= MaxPolySize
    /\ AppendRoute(PlainRoute(n, Back(m_poly)))

DoMoveIterator == \E gps \in GpsFixes : MoveIterator(gps)

DoMatchLocationToRoute == \E gps \in GpsFixes : MatchLocationToRoute(gps)

NextTracking ==
  DoAppendPlainRoute \/ Update \/ DoMoveIterator \/ DoMatchLocationToRoute

SpecTracking == InitTracking /\ [][NextTracking]_vars

\* C10: in every state reached from a route constructed with a valid path by
\* MoveIterator, MatchLocationToRoute, Update and AppendRoute calls, the
\* tracking clock is 0, and every MoveIterator call has handed "no
\* prediction" (-1) to the projector, whatever the fix's speed and timestamp.
C10_ClockNeverSet ==
  /\ m_currentTime = 0
  /\ predictDistance = -1

\* C10 witness: after a merge, MoveIterator has moved the cursor with a fix
\* that has a speed and a fresh timestamp, and a location has been matched.
C10_Witness ==
  /\ Size(m_poly) >= MaxPolySize
  /\ m_current.m_ind > 0
  /\ fix.hasSpeed /\ fix.m_speed > 0 /\ fix.m_timestamp = 1
  /\ routeMatchingInfo.isSet
  /\ predictDistance = -1

(***************************************************************************)
(* Route::GetCurrentTimeToEndSec.  Arithmetic is exact; the conversion of  *)
(* the result to uint32_t truncates.                                       *)
(***************************************************************************)
RECURSIVE LowerBound(_, _, _)
\* std::lower_bound in the place of std::upper_bound
LowerBound(times, v, idx) ==
  IF idx < Len(times) /\ times[idx + 1].first < v
    THEN LowerBound(times, v, idx + 1)
  ELSE idx

RECURSIVE UpperBound(_, _, _)
\* std::upper_bound over the vertex indices: the number of leading items
\* the value v is not less than, counted from idx on
UpperBound(times, v, idx) ==
  IF idx < Len(times) /\ ~(v < times[idx + 1].first)
    THEN UpperBound(times, v, idx + 1)
  ELSE idx

\* TimeToEndSec without "time -= m_times[idx - 1].second": the whole
\* cumulative time of the target is spread over its segment
TimeToEndSecWholeTime(poly, cur, times) ==
  IF times = << >> \/ Size(poly) = 0 THEN 0
  ELSE
    LET idx == UpperBound(times, cur.m_ind, 0)
    IN IF idx = Len(times) THEN 0
       ELSE
         LET it == times[idx + 1]
             distFn(start, end) ==
               GetDistanceM(poly, GetIterToIndex(poly, start),
                            GetIterToIndex(poly, end))
             dist == distFn(IF idx > 0 THEN times[idx].first ELSE 0, it.first)
         IN IF dist # 0
              THEN LET distRemain ==
                         distFn(cur.m_ind, it.first)
                           - DistanceOnEarth(cur.m_pt, GetPoint(poly, cur.m_ind))
                   IN (TotalTimeSec(times) - it.second)
                        + ((it.second * distRemain) \div dist)
            ELSE TotalTimeSec(times) - it.second

TimeToEndSec(poly, cur, times) ==
  IF times = << >> \/ Size(poly) = 0 THEN 0
  ELSE
    LET idx == UpperBound(times, cur.m_ind, 0)
    IN IF idx = Len(times) THEN 0
       ELSE
         LET it == times[idx + 1]
             time == IF idx > 0 THEN it.second - times[idx].second ELSE it.second
             distFn(start, end) ==
               GetDistanceM(poly, GetIterToIndex(poly, start),
                            GetIterToIndex(poly, end))
             dist == distFn(IF idx > 0 THEN times[idx].first ELSE 0, it.first)
         IN IF dist # 0
              THEN LET distRemain ==
                         distFn(cur.m_ind, it.first)
                           - DistanceOnEarth(cur.m_pt, GetPoint(poly, cur.m_ind))
                   IN (TotalTimeSec(times) - it.second)
                        + ((time * distRemain) \div dist)
            ELSE TotalTimeSec(times) - it.second

GetCurrentTimeToEndSec == TimeToEndSec(m_poly, m_current, m_times)

(***************************************************************************)
(* The time estimator over paths with edges of length 0 and 2 and every    *)
(* time table of such a path, the cursor put anywhere on the path by a fix *)
(* of poor accuracy.                                                       *)
(***************************************************************************)
\* largest number of vertices of a path of the time estimator's routes
MaxTimePolySize == 4
\* largest cumulative time of a checkpoint
MaxCheckTime == 3

EdgeLengths == {0, 2}

RECURSIVE PolysOfSize(_)
\* the paths of n vertices from the point 0
PolysOfSize(n) ==
  IF n = 1 THEN { << 0 >> }
  ELSE { Append(p, Back(p) + d) : p \in PolysOfSize(n - 1), d \in EdgeLengths }

\* the scenario of five points 100 m apart with one checkpoint (4, 40 s)
ScenarioRoute ==
  MakeRoute(<< 0, 100, 200, 300, 400 >>,
            << TurnItem(4, "ReachedYourDestination") >>,
            << Item(4, 40) >>, << >>, << >>, << >>)

TimeRoutes ==
  { ScenarioRoute } \cup
  UNION { { MakeRoute(poly, PlainTurns(n), t, << >>, << >>, << >>) :
              poly \in PolysOfSize(n), t \in TimeTables(n, MaxCheckTime) } :
          n \in 2..MaxTimePolySize }

\* a fix whose accuracy circle covers the whole path
WideFix == GpsInfo(0, FALSE, 0, 1, 1000)

InitTime == \E route \in TimeRoutes : Construct(route)

NextTime == MoveIterator(WideFix) \/ Update

SpecTime == InitTime /\ [][NextTime]_vars

\* a checkpoint of the time table, as a 1-based position in it
Checkpoints == 1..Len(m_times)
\* the checkpoint with the least vertex index among those of the set K
FirstOf(K) == CHOOSE k \in K : \A l \in K : m_times[k].first <= m_times[l].first
\* the checkpoint with the greatest vertex index among those of the set K
LastOf(K) == CHOOSE k \in K : \A l \in K : m_times[l].first <= m_times[k].first
\* arc length from the cursor to the vertex v
ArcFromCursor(v) == Abs(ArcToVertex(m_poly, v) - DistanceFromBegin(m_poly, m_current))

\* the remaining time as stated for the target checkpoints K (those at or
\* after the cursor, or those after it)
StatedTimeToEnd(K) ==
  IF K = {} THEN 0
  ELSE LET target == FirstOf(K)
           before == { k \in Checkpoints :
                         m_times[k].first < m_times[target].first }
           prevTime == IF before = {} THEN 0 ELSE m_times[LastOf(before)].second
           prevVertex == IF before = {} THEN 0 ELSE m_times[LastOf(before)].first
           segTime == m_times[target].second - prevTime
           segDist == ArcToVertex(m_poly, m_times[target].first)
                        - ArcToVertex(m_poly, prevVertex)
           remDist == ArcFromCursor(m_times[target].first)
           T == GetTotalTimeSec
       IN IF segDist # 0
            THEN (T - m_times[target].second) + ((segTime * remDist) \div segDist)
          ELSE T - m_times[target].second

\* C6 as stated: the target is the first checkpoint with index >= i.
C6_TargetAtOrAfter ==
  GetCurrentTimeToEndSec
    = StatedTimeToEnd({ k \in Checkpoints : m_times[k].first >= m_current.m_ind })

\* C6, amended: GetCurrentTimeToEndSec takes as target the first checkpoint
\* with index > i and returns 0 if there is none; otherwise it returns
\* (T - target.time) + segTime * remDist / segDist, truncated, when segDist
\* is not 0 and T - target.time when it is; the scenario of 5 points 100 m
\* apart with the checkpoint (4, 40 s) and the cursor at vertex 2 gives 20.
C6_TargetAfter ==
  /\ GetCurrentTimeToEndSec
       = StatedTimeToEnd({ k \in Checkpoints : m_times[k].first > m_current.m_ind })
  /\ (m_poly = ScenarioRoute.poly /\ m_current = GetIterToIndex(m_poly, 2))
       => GetCurrentTimeToEndSec = 20

\* C6 witness: the cursor is inside the segment that starts at a checkpoint
\* vertex, with a later checkpoint ahead and time left.
C6_Witness ==
  /\ \E k \in Checkpoints : m_times[k].first = m_current.m_ind
  /\ \E k \in Checkpoints : m_times[k].first > m_current.m_ind
  /\ m_current.m_pt > GetPoint(m_poly, m_current.m_ind)
  /\ GetCurrentTimeToEndSec > 0
  /\ GetCurrentTimeToEndSec < GetTotalTimeSec

ArcOfCursor == DistanceFromBegin(m_poly, m_current)

\* C7 as stated: along cursor positions whose arc length never decreases
\* the remaining time never increases, and it is 0 once the cursor is at or
\* past the last checkpoint.
C7_ArcMonotone ==
  [][ /\ ArcOfCursor' >= ArcOfCursor
          => GetCurrentTimeToEndSec' <= GetCurrentTimeToEndSec
      /\ ArcOfCursor' >= ArcToVertex(m_poly', Back(m_times').first)
          => GetCurrentTimeToEndSec' = 0 ]_vars

\* C7, amended: along cursor positions whose vertex index and arc length
\* never decrease the remaining time never increases, and it is 0 once the
\* cursor's vertex index is at or past the index of the last checkpoint.
C7_IndexMonotone ==
  [][ /\ (m_current'.m_ind >= m_current.m_ind /\ ArcOfCursor' >= ArcOfCursor)
          => GetCurrentTimeToEndSec' <= GetCurrentTimeToEndSec
      /\ m_current'.m_ind >= Back(m_times').first
          => GetCurrentTimeToEndSec' = 0 ]_vars

\* C7 witness: the cursor has crossed a checkpoint vertex over a segment of
\* zero length and the remaining time has dropped below the total.
C7_Witness ==
  /\ Len(m_times) >= 2
  /\ m_current.m_ind >= m_times[1].first
  /\ m_current.m_ind > 0
  /\ GetPoint(m_poly, m_current.m_ind) = GetPoint(m_poly, m_current.m_ind - 1)
  /\ GetCurrentTimeToEndSec > 0
  /\ GetCurrentTimeToEndSec < GetTotalTimeSec

(***************************************************************************)
(* Route::GetCurrentStreetNameIterAfter and Route::GetCurrentStreetName.   *)
(* An iterator is a 0-based position in m_streets; Len(streets) is cend(). *)
(* Dereferencing cend() or an iterator past it is undefined: the vertex    *)
(* index read there is any value, the name read there is "(garbage)".      *)
(***************************************************************************)
\* largest number of vertices of a path of the street lookup's routes
MaxStreetPolySize == 4

\* curIter->first
StreetFirst(streets, pos, garbage) ==
  IF pos < Len(streets) THEN streets[pos + 1].first ELSE garbage

RECURSIVE StreetWalk(_, _, _, _, _)
\* the while loop and the return of GetCurrentStreetNameIterAfter
StreetWalk(streets, ind, prevIter, curIter, garbage) ==
  IF StreetFirst(streets, curIter, garbage) < ind
    THEN IF curIter + 1 = Len(streets) THEN curIter + 1
         ELSE IF curIter + 1 > Len(streets) THEN curIter + 1
         ELSE StreetWalk(streets, ind, prevIter + 1, curIter + 1, garbage)
  ELSE IF StreetFirst(streets, curIter, garbage) = ind THEN curIter
       ELSE prevIter

GetCurrentStreetNameIterAfter(streets, ind, garbage) ==
  IF streets = << >> THEN Len(streets)
  ELSE StreetWalk(streets, ind, 0, 1, garbage)

\* what GetCurrentStreetName stores in its out-parameter
CurrentStreetName(streets, ind, garbage) ==
  LET it == GetCurrentStreetNameIterAfter(streets, ind, garbage)
  IN IF it = Len(streets) THEN ""
     ELSE IF it < Len(streets) THEN streets[it + 1].second
     ELSE "(garbage)"

GetCurrentStreetName ==
  /\ ~crashed
  /\ \E garbage \in 0..MaxStreetPolySize :
       name' = [asked |-> TRUE, at |-> m_current.m_ind,
                value |-> CurrentStreetName(m_streets, m_current.m_ind, garbage)]
  /\ UNCHANGED << m_poly, m_current, m_turns, m_times, m_streets, m_altitudes,
                  m_traffic, m_currentTime, predictDistance, fix,
                  routeMatchingInfo, info, crashed >>

\* street tables of a path of n vertices, sorted by index, of any length
AnyStreetTables(n) == UNION { StreetTablesOver(S) : S \in SUBSET (0..(n - 1)) }

InitStreet ==
  \E n \in 2..MaxStreetPolySize :
    \E s \in AnyStreetTables(n) :
      Construct(MakeRoute(UnitPoly(n, 0), PlainTurns(n), PlainTimes(n), s,
                          << >>, << >>))

NextStreet == MoveIterator(WideFix) \/ GetCurrentStreetName

SpecStreet == InitStreet /\ [][NextStreet]_vars

\* C5: for every street table sorted by index, a single entry included, and
\* every cursor vertex index i, GetCurrentStreetName returns the name of the
\* entry with the greatest index <= i (the last entry's name is valid to the
\* end of the path), and the empty string when the table is empty or no
\* entry covers i.
C5_CoveringStreet ==
  name.asked =>
    name.value = IF CoveringName(m_streets, name.at) = "(none)" THEN ""
                 ELSE CoveringName(m_streets, name.at)

(***************************************************************************)
(* Route::GetSubrouteInfo.  Table positions are 0-based; m_times[idx] with *)
(* idx outside the table is undefined: it reads any item.                  *)
(***************************************************************************)
\* largest number of vertices of a path of the segment exporter's routes
MaxExportPolySize == 4
\* feature::kInvalidAltitude
kInvalidAltitude == -32768

InBounds(table, idx) == idx >= 0 /\ idx < Len(table)
TimeAt(times, idx, garbage) ==
  IF InBounds(times, idx) THEN times[idx + 1] ELSE garbage
TurnAt(turns, idx, garbage) ==
  IF InBounds(turns, idx) THEN turns[idx + 1]
  ELSE TurnItem(garbage.first, "(garbage)")

\* the position in m_times the loop starts from
FirstTimeIdx(times) == IF times[1].first # 0 THEN 1 ELSE 0
\* the position in m_turns the loop starts from: a turn at vertex 0 is skipped
FirstTurnIdx(turns) == IF turns[1].m_index = 0 THEN 1 ELSE 0

RECURSIVE ExportLoop(_, _, _, _, _, _, _)
\* the for loop of GetSubrouteInfo from vertex i on; acc is what has been
\* collected: the records, whether m_times was indexed out of bounds, and
\* whether the CHECK on turnItemIdx failed
ExportLoop(route, garbage, i, turnItemIdx, timeIdx, dist, acc) ==
  IF ~(i < Size(route.poly)) \/ acc.failed THEN acc
  ELSE
    LET hit == TurnAt(route.turns, turnItemIdx, garbage).m_index = i
        turn == IF hit THEN TurnAt(route.turns, turnItemIdx, garbage).m_turn
                ELSE "NoTurn"
        turnItemIdx2 == IF hit THEN turnItemIdx + 1 ELSE turnItemIdx
        timeIdx2 == IF TimeAt(route.times, timeIdx, garbage).first = i
                      THEN timeIdx + 1 ELSE timeIdx
        dist2 == dist + DistanceOnEarth(GetPoint(route.poly, i - 1),
                                        GetPoint(route.poly, i))
        record == [turn |-> turn,
                   altitude |-> IF route.altitudes = << >> THEN kInvalidAltitude
                                ELSE route.altitudes[i + 1],
                   distMeters |-> dist2,
                   time |-> TimeAt(route.times, timeIdx2 - 1, garbage).second,
                   traffic |-> IF route.traffic = << >> THEN "Unknown"
                               ELSE route.traffic[i]]
    IN ExportLoop(route, garbage, i + 1, turnItemIdx2, timeIdx2, dist2,
                  [records |-> Append(acc.records, record),
                   outOfBounds |-> \/ acc.outOfBounds
                                   \/ ~InBounds(route.times, timeIdx)
                                   \/ ~InBounds(route.times, timeIdx2 - 1),
                   failed |-> turnItemIdx2 > Len(route.turns)])

\* the CHECKs GetSubrouteInfo makes before it builds the list
SubrouteChecks(route) ==
  /\ IsValid(route.poly)
  /\ route.turns # << >>
  /\ Back(route.turns).m_index < Size(route.poly)
  /\ \A k \in 1..(Len(route.turns) - 1) :
       ~(route.turns[k + 1].m_index < route.turns[k].m_index)
  /\ route.altitudes # << >> => Len(route.altitudes) = Size(route.poly)
  /\ route.times # << >>
  /\ Back(route.times).first < Size(route.poly)
  /\ \A k \in 1..(Len(route.times) - 1) :
       ~(route.times[k + 1].first < route.times[k].first)
  /\ route.traffic # << >> => Len(route.traffic) + 1 = Size(route.poly)

SubrouteInfo(route, garbage) ==
  ExportLoop(route, garbage, 1, FirstTurnIdx(route.turns),
             FirstTimeIdx(route.times), 0,
             [records |-> << >>, outOfBounds |-> FALSE, failed |-> FALSE])

ThisRoute ==
  MakeRoute(m_poly, m_turns, m_times, m_streets, m_altitudes, m_traffic)

GetSubrouteInfo ==
  /\ ~crashed
  /\ \E garbage \in [first : 0..MaxExportPolySize, second : {0, 99}] :
       IF ~SubrouteChecks(ThisRoute) THEN Crash
       ELSE LET out == SubrouteInfo(ThisRoute, garbage)
            IN IF out.failed THEN Crash
               ELSE /\ info' = [done |-> TRUE, records |-> out.records,
                                outOfBounds |-> out.outOfBounds]
                    /\ UNCHANGED << m_poly, m_current, m_turns, m_times,
                                    m_streets, m_altitudes, m_traffic,
                                    m_currentTime, predictDistance, fix,
                                    routeMatchingInfo, name, crashed >>

InitExport ==
  \E n \in 2..MaxExportPolySize :
    \E turns \in TurnTables(n), times \in TimeTables(n, MaxCheckTime),
       altitudes \in AltitudeArrays(n), traffic \in { << >>, Fill(n - 1, "G0") } :
      Construct(MakeRoute(UnitPoly(n, 0), turns, times, << >>, altitudes, traffic))

NextExport == GetSubrouteInfo \/ Update

SpecExport == InitExport /\ [][NextExport]_vars

\* C8: for every route whose tables pass the checks of GetSubrouteInfo, the
\* list has vertex_count - 1 records, the time field of the record of edge k
\* is the cumulative time of the most recent checkpoint at or before k, and
\* the time table is not indexed outside its bounds.
C8_ExportTimes ==
  info.done =>
    /\ Len(info.records) = Size(m_poly) - 1
    /\ ~info.outOfBounds
    /\ \A k \in 1..Len(info.records) :
         LET upTo == { c \in Checkpoints : m_times[c].first <= k }
         IN upTo # {} => info.records[k].time = m_times[LastOf(upTo)].second
====
